---- MODULE Spec2Model ----
(***************************************************************************)
(* Change classification and account-scope reconciliation of iambic        *)
(* (src/iambic/core/git.py).                                               *)
(*                                                                         *)
(* Three functions are modelled, each under its own specification:         *)
(*   SpecModified  create_templates_for_modified_files  (one git_diff)     *)
(*   SpecChanges   retrieve_git_changes                 (one diff entry)   *)
(*   SpecDeleted   create_templates_for_deleted_files   (a list)           *)
(*                                                                         *)
(* Account matchers, account ids and account names are strings; a string   *)
(* is a sequence of one-character strings, so that "\n".join and           *)
(* re.search are computed on characters.                                   *)
(***************************************************************************)
EXTENDS Integers, Sequences, FiniteSets, TLC

VARIABLES
    pc,                          \* position in the function being run
    templates,                   \* the list the materializers return
    config,                      \* config.aws.accounts, the Account Registry
    main_template,               \* record parsed from git_diff.content (baseline)
    template_dict,               \* document parsed from the working tree (current)
    template,                    \* record built from template_dict, mutated in place
    deleted_included_accounts,
    deleted_exclude_accounts,
    template_excluded_accounts,
    idx,                         \* index of the for loop being run
    repo_dir, from_sha, heads, fetched, from_sha_obj,
    raised,                      \* the exception that ended the call, if any
    file_obj,                    \* the entry of diff_index being classified
    files,                       \* new_files / deleted_files / modified_files
    deleted_files                \* input of create_templates_for_deleted_files

vars == <<pc, templates, config, main_template, template_dict, template,
          deleted_included_accounts, deleted_exclude_accounts,
          template_excluded_accounts, idx, repo_dir, from_sha, heads, fetched,
          from_sha_obj, raised, file_obj, files, deleted_files>>

modifiedVars == <<config, main_template, template_dict, template,
                  deleted_included_accounts, deleted_exclude_accounts,
                  template_excluded_accounts>>
changesVars ==
    <<repo_dir, from_sha, heads, fetched, from_sha_obj, raised, file_obj, files>>

None == "None"

(***************************************************************************)
(* Bounds                                                                  *)
(***************************************************************************)
MaxIncluded == 2      \* longest included_accounts list of a document
MaxPrior == 2         \* longest list of directives a document already carries
MaxMembers == 2       \* longest members list of a document
MaxDeletedFiles == 2  \* longest deleted_files list

(***************************************************************************)
(* Strings                                                                 *)
(***************************************************************************)
STAR == <<"*">>
NL == <<"\n">>
\* Matchers of the model: "p" occurs in "p2", "d" in neither.
Prod == <<"p">>
Prod2 == <<"p", "2">>
Dev == <<"d">>

\* Sequences over S of length at most n.
SeqsUpTo(S, n) == UNION {[1..k -> S] : k \in 0..n}

\* Sequences over S without repetition.
RECURSIVE Perms(_)
Perms(S) ==
    {<<>>} \cup UNION {{<<x>> \o t : t \in Perms(S \ {x})} : x \in S}

Range(s) == {s[i] : i \in 1..Len(s)}

\* x in list
In(x, list) == \E i \in 1..Len(list) : list[i] = x

\* "\n".join(list)
RECURSIVE Join(_)
Join(list) ==
    IF list = <<>> THEN <<>>
    ELSE IF Len(list) = 1 THEN list[1]
    ELSE list[1] \o NL \o Join(Tail(list))

\* needle occurs in hay as a contiguous run of characters
IsSubstr(needle, hay) ==
    \E i \in 1..(Len(hay) - Len(needle) + 1) :
        SubSeq(hay, i, i + Len(needle) - 1) = needle

\* The regular expressions the code builds are literals and the alternation
\* "(a|b)" of two literals.
IsAlternation(pattern) ==
    /\ Len(pattern) >= 3
    /\ pattern[1] = "("
    /\ pattern[Len(pattern)] = ")"
    /\ \E k \in 2..(Len(pattern) - 1) : pattern[k] = "|"

Bar(pattern) == CHOOSE k \in 2..(Len(pattern) - 1) : pattern[k] = "|"

\* re.search(pattern, string) is not None
ReSearch(pattern, string) ==
    IF IsAlternation(pattern)
    THEN \/ IsSubstr(SubSeq(pattern, 2, Bar(pattern) - 1), string)
         \/ IsSubstr(SubSeq(pattern, Bar(pattern) + 1, Len(pattern) - 1), string)
    ELSE IsSubstr(pattern, string)

\* rf"({aws_account.account_id}|{aws_account.account_name})"
AccountRegex(aws_account) ==
    <<"(">> \o aws_account.account_id \o <<"|">> \o aws_account.account_name \o <<")">>

(***************************************************************************)
(* Inputs of create_templates_for_modified_files                           *)
(***************************************************************************)
Account(id, name) == [account_id |-> id, account_name |-> name]
AccountProd == Account(<<"7">>, Prod)
AccountProd2 == Account(<<"8">>, Prod2)
AccountDev == Account(<<"9">>, Dev)
\* An account whose id happens to occur in the name of another one.
AccountTwo == Account(<<"2">>, Dev)

\* Account registries the configuration may hold.
Configs ==
    {<<AccountProd, AccountProd2, AccountDev>>, <<AccountProd2, AccountTwo, AccountProd>>}

IncludedMatchers == {STAR, Prod, Prod2}
ExcludedMatchers == {Prod, Prod2}
\* included_accounts of the baseline: any list; of the current document: any
\* list without repetition.
IncludedLists == SeqsUpTo(IncludedMatchers, MaxIncluded)
CurrentIncludedLists == Perms(IncludedMatchers)
ExcludedLists == Perms(ExcludedMatchers)

\* Deleted(deleted=True, included_accounts=..., excluded_accounts=...)
Deleted(inc, exc) ==
    [deleted |-> TRUE, included_accounts |-> inc, excluded_accounts |-> exc]

\* Directives a document may already carry from earlier reconciliations.
PriorHistory ==
    <<Deleted(<<Prod>>, <<Prod2>>), Deleted(<<AccountRegex(AccountDev)>>, <<>>),
      Deleted(<<Prod2>>, <<Prod>>), Deleted(<<Prod>>, <<>>)>>
PriorLists == {SubSeq(PriorHistory, 1, n) : n \in 0..MaxPrior}

\* The deleted field of a record is a boolean or a list of directives
\* (Union[bool, List[Deleted]]): isbool tells which, flag is the boolean,
\* items the list.
DeletedBool(b) == [isbool |-> TRUE, flag |-> b, items |-> <<>>]
DeletedList(l) == [isbool |-> FALSE, flag |-> FALSE, items |-> l]
DeletedValues ==
    {DeletedBool(b) : b \in BOOLEAN}
        \cup {DeletedList(l) : l \in PriorLists}

\* isinstance(x, bool)
IsBool(x) == x.isbool
\* x is True
IsTrue(x) == x.isbool /\ x.flag

(***************************************************************************)
(* create_templates_for_modified_files, for one git_diff of modified_files *)
(***************************************************************************)
\* Value of a local that is not yet assigned.
NoTemplate ==
    [included_accounts |-> <<>>, excluded_accounts |-> <<>>,
     deleted |-> DeletedBool(FALSE)]

\* The parts of a template document the reconciliation reads.
Documents ==
    [included_accounts : CurrentIncludedLists, excluded_accounts : ExcludedLists,
     deleted : DeletedValues]

\* The variables of retrieve_git_changes while another function runs.
ChangesIdle ==
    /\ repo_dir = None /\ from_sha = None /\ heads = {} /\ fetched = {}
    /\ from_sha_obj = None /\ raised = None /\ file_obj = None /\ files = None

\* main_template_dict is yaml.load(StringIO(git_diff.content)), template_dict
\* is yaml.load(open(git_diff.path)); both are inputs of the call.
InitModified ==
    /\ pc = "start"
    /\ templates = <<>>
    /\ config \in Configs
    /\ main_template \in
           [included_accounts : IncludedLists, excluded_accounts : ExcludedLists,
            deleted : {DeletedBool(FALSE)}]
    /\ template_dict \in Documents
    /\ template = NoTemplate
    /\ deleted_included_accounts = <<>>
    /\ deleted_exclude_accounts = <<>>
    /\ template_excluded_accounts = <<>>
    /\ idx = 0
    /\ ChangesIdle
    /\ deleted_files = <<>>

\* template = template_cls(**template_dict); deleted_included_accounts = [];
\* deleted_exclude_accounts = [*template.included_accounts]
Parse ==
    /\ pc = "start"
    /\ template' = template_dict
    /\ deleted_included_accounts' = <<>>
    /\ deleted_exclude_accounts' = template_dict.included_accounts
    /\ template_excluded_accounts' = <<>>
    /\ idx' = 1
    /\ pc' = "shrink"
    /\ UNCHANGED <<templates, config, main_template, template_dict>>
    /\ UNCHANGED changesVars /\ UNCHANGED deleted_files

\* if "*" not in deleted_exclude_accounts
ShrinkPassRuns == ~In(STAR, deleted_exclude_accounts)

\* if "*" in main_template.included_accounts
WildcardBaseline == In(STAR, main_template.included_accounts)

\* re.search(account_regex, deleted_exclude_accounts_str) and
\* re.search(account, deleted_exclude_accounts_str)
StillIncludedExact(matcher, included) == In(matcher, included)
StillIncludedFirstOnly(matcher, included) ==
    included # <<>> /\ ReSearch(matcher, included[1])
StillIncluded(matcher, included) == ReSearch(matcher, Join(included))

\* deleted_included_accounts.append(m); template.included_accounts.append(m)
MarkDeletedDirectiveOnly(matcher) ==
    /\ deleted_included_accounts' = Append(deleted_included_accounts, matcher)
    /\ UNCHANGED template
MarkDeleted(matcher) ==
    /\ deleted_included_accounts' = Append(deleted_included_accounts, matcher)
    /\ template' = [template EXCEPT !.included_accounts = Append(@, matcher)]

\* The pass is skipped: the current included_accounts holds "*".
SkipShrink ==
    /\ pc = "shrink"
    /\ ~ShrinkPassRuns
    /\ pc' = "excluded"
    /\ idx' = 1
    /\ UNCHANGED <<templates>> /\ UNCHANGED modifiedVars
    /\ UNCHANGED changesVars /\ UNCHANGED deleted_files

\* One iteration of: for aws_account in config.aws.accounts
WildcardStep ==
    /\ pc = "shrink"
    /\ ShrinkPassRuns
    /\ WildcardBaseline
    /\ idx <= Len(config)
    /\ LET account_regex == AccountRegex(config[idx]) IN
           IF StillIncluded(account_regex, deleted_exclude_accounts)
           THEN UNCHANGED <<deleted_included_accounts, template>>
           ELSE MarkDeleted(account_regex)
    /\ idx' = idx + 1
    /\ UNCHANGED <<pc, templates, config, main_template, template_dict,
                   deleted_exclude_accounts, template_excluded_accounts>>
    /\ UNCHANGED changesVars /\ UNCHANGED deleted_files

\* One iteration of: for account in main_template.included_accounts
ExplicitStep ==
    /\ pc = "shrink"
    /\ ShrinkPassRuns
    /\ ~WildcardBaseline
    /\ idx <= Len(main_template.included_accounts)
    /\ LET account == main_template.included_accounts[idx] IN
           IF StillIncluded(account, deleted_exclude_accounts)
           THEN UNCHANGED <<deleted_included_accounts, template>>
           ELSE MarkDeleted(account)
    /\ idx' = idx + 1
    /\ UNCHANGED <<pc, templates, config, main_template, template_dict,
                   deleted_exclude_accounts, template_excluded_accounts>>
    /\ UNCHANGED changesVars /\ UNCHANGED deleted_files

\* The loop of the pass is exhausted.
EndShrink ==
    /\ pc = "shrink"
    /\ ShrinkPassRuns
    /\ idx > (IF WildcardBaseline THEN Len(config)
              ELSE Len(main_template.included_accounts))
    /\ pc' = "excluded"
    /\ idx' = 1
    /\ UNCHANGED <<templates>> /\ UNCHANGED modifiedVars
    /\ UNCHANGED changesVars /\ UNCHANGED deleted_files

\* main_template_excluded_accounts_str and re.search(account, that string):
\* the string is None when the baseline excludes nothing.
AlreadyExcluded(account, main) ==
    /\ main.excluded_accounts # <<>>
    /\ Join(main.excluded_accounts) # <<>>
    /\ ReSearch(account, Join(main.excluded_accounts))

\* re.search(account, main_template_included_accounts_str)
\*     or "*" in main_template.included_accounts
PreviouslyIncludedNoWildcard(account, main) ==
    ReSearch(account, Join(main.included_accounts))
PreviouslyIncluded(account, main) ==
    \/ ReSearch(account, Join(main.included_accounts))
    \/ In(STAR, main.included_accounts)

\* One iteration of: for account in template.excluded_accounts
ExcludedStep ==
    /\ pc = "excluded"
    /\ idx <= Len(template.excluded_accounts)
    /\ LET account == template.excluded_accounts[idx] IN
           IF AlreadyExcluded(account, main_template)
           THEN /\ template_excluded_accounts' =
                       Append(template_excluded_accounts, account)
                /\ UNCHANGED <<deleted_included_accounts, template>>
           ELSE IF PreviouslyIncluded(account, main_template)
           THEN /\ MarkDeleted(account)
                /\ UNCHANGED template_excluded_accounts
           ELSE /\ template_excluded_accounts' =
                       Append(template_excluded_accounts, account)
                /\ UNCHANGED <<deleted_included_accounts, template>>
    /\ idx' = idx + 1
    /\ UNCHANGED <<pc, templates, config, main_template, template_dict,
                   deleted_exclude_accounts>>
    /\ UNCHANGED changesVars /\ UNCHANGED deleted_files

\* if deleted_included_accounts and template.deleted is not True
BuildsDirectiveAlways(newly_deleted, deleted) == newly_deleted # <<>>
BuildsDirective(newly_deleted, deleted) ==
    newly_deleted # <<>> /\ ~IsTrue(deleted)

\* Deleted(deleted=True, included_accounts=deleted_included_accounts,
\*         excluded_accounts=[ea for ea in deleted_exclude_accounts if ea != "*"])
NotStar(ea) == ea # STAR
DeletedObjKeepStar(newly_deleted, still_included) ==
    Deleted(newly_deleted, still_included)
DeletedObj(newly_deleted, still_included) ==
    Deleted(newly_deleted, SelectSeq(still_included, NotStar))

\* template.deleted = [deleted_obj] if it is a bool, else append to the list
WithDirectiveOverwrite(deleted, deleted_obj) == DeletedList(<<deleted_obj>>)
WithDirective(deleted, deleted_obj) ==
    IF IsBool(deleted)
    THEN DeletedList(<<deleted_obj>>)
    ELSE DeletedList(Append(deleted.items, deleted_obj))

\* template.excluded_accounts = template_excluded_accounts; the directive is
\* built and attached; templates.append(template)
Finish ==
    /\ pc = "excluded"
    /\ idx > Len(template.excluded_accounts)
    /\ LET reconciled ==
               [template EXCEPT
                    !.excluded_accounts = template_excluded_accounts,
                    !.deleted =
                        IF BuildsDirective(deleted_included_accounts, template.deleted)
                        THEN WithDirective(
                                 template.deleted,
                                 DeletedObj(deleted_included_accounts,
                                            deleted_exclude_accounts))
                        ELSE @]
       IN  /\ template' = reconciled
           /\ templates' = Append(templates, reconciled)
    /\ pc' = "done"
    /\ UNCHANGED <<config, main_template, template_dict, deleted_included_accounts,
                   deleted_exclude_accounts, template_excluded_accounts, idx>>
    /\ UNCHANGED changesVars /\ UNCHANGED deleted_files

NextModified ==
    \/ Parse
    \/ SkipShrink
    \/ WildcardStep
    \/ ExplicitStep
    \/ EndShrink
    \/ ExcludedStep
    \/ Finish

SpecModified == InitModified /\ [][NextModified]_vars

(***************************************************************************)
(* Properties of create_templates_for_modified_files                       *)
(***************************************************************************)
\* needle occurs in hay: hay = prefix \o needle \o suffix
Occurs(needle, hay) ==
    \E i \in 0..(Len(hay) - Len(needle)) :
        \A k \in 1..Len(needle) : hay[i + k] = needle[k]

\* The matcher is found in the list: it occurs in one of its entries
\* (a search in the newline-joined list).
FoundIn(matcher, list) == \E j \in 1..Len(list) : Occurs(matcher, list[j])

\* The list covers the account: the account's id or name is found in it.
Covers(list, account) ==
    FoundIn(account.account_id, list) \/ FoundIn(account.account_name, list)

\* The reconciliation has attached a new Deletion Directive to the record.
DirectiveEmitted ==
    /\ pc = "done"
    /\ ~IsBool(template.deleted)
    /\ Len(template.deleted.items) = Len(template_dict.deleted.items) + 1

NewDirective == template.deleted.items[Len(template.deleted.items)]

Uncovered == SelectSeq(config, LAMBDA a : ~Covers(template_dict.included_accounts, a))
UncoveredMatchers == [i \in 1..Len(Uncovered) |-> AccountRegex(Uncovered[i])]

WildcardNarrowing ==
    /\ pc = "done"
    /\ In(STAR, main_template.included_accounts)
    /\ ~In(STAR, template_dict.included_accounts)
    /\ template_dict.excluded_accounts = <<>>

\* C1: when the baseline included_accounts holds "*", the current one does
\* not and the current excluded_accounts is empty, the directive emitted
\* lists the matcher "(id|name)" of exactly the registry accounts whose id
\* and name are not found in the current included_accounts, in registry
\* order; one is emitted whenever such an account exists and the record is
\* not fully deleted, and none when every account is still covered.
C1_WildcardNarrowing ==
    WildcardNarrowing =>
        /\ DirectiveEmitted => NewDirective.included_accounts = UncoveredMatchers
        /\ (Uncovered # <<>> /\ ~IsTrue(template_dict.deleted)) => DirectiveEmitted
        /\ Uncovered = <<>> => ~DirectiveEmitted

\* A narrowed wildcard with one account still covered and another dropped.
C1_Witness ==
    /\ WildcardNarrowing
    /\ DirectiveEmitted
    /\ Len(Uncovered) < Len(config)
    /\ \E i \in 1..Len(config) :
           /\ Covers(template_dict.included_accounts, config[i])
           /\ ~In(AccountRegex(config[i]), NewDirective.included_accounts)
    /\ \E i \in 1..Len(config) :
           In(AccountRegex(config[i]), NewDirective.included_accounts)

Dropped ==
    SelectSeq(main_template.included_accounts,
              LAMBDA m : ~FoundIn(m, template_dict.included_accounts))

ExplicitShrink ==
    /\ pc = "done"
    /\ ~In(STAR, main_template.included_accounts)
    /\ ~In(STAR, template_dict.included_accounts)
    /\ template_dict.excluded_accounts = <<>>

\* C2: when neither included_accounts holds "*" and the current
\* excluded_accounts is empty, the directive emitted lists exactly the
\* baseline included_accounts matchers not found in the current
\* included_accounts, in baseline order; none is emitted when no baseline
\* matcher was dropped.
C2_ExplicitShrink ==
    ExplicitShrink =>
        /\ DirectiveEmitted => NewDirective.included_accounts = Dropped
        /\ (Dropped # <<>> /\ ~IsTrue(template_dict.deleted)) => DirectiveEmitted
        /\ Dropped = <<>> => ~DirectiveEmitted

\* An explicit list that lost one matcher and kept another.
C2_Witness ==
    /\ ExplicitShrink
    /\ DirectiveEmitted
    /\ Len(Dropped) = 1
    /\ Len(main_template.included_accounts) = 2
    /\ template_dict.included_accounts # <<>>

C4_AlreadyExcludedStable ==
    pc = "done" =>
        /\ \A i \in 1..Len(template_dict.excluded_accounts) :
               LET m == template_dict.excluded_accounts[i] IN
                   In(m, main_template.excluded_accounts)
                   => /\ In(m, template.excluded_accounts)
                      /\ DirectiveEmitted => ~In(m, NewDirective.included_accounts)
        /\ (/\ template_dict.included_accounts = main_template.included_accounts
            /\ \A i \in 1..Len(template_dict.excluded_accounts) :
                   In(template_dict.excluded_accounts[i],
                      main_template.excluded_accounts))
           => ~DirectiveEmitted

\* C5: when the reconciliation found newly deleted accounts and the current
\* record's deleted field already is a list of directives, the resulting
\* list is the previous list, unchanged and in order, followed by one new
\* directive.
C5_DirectiveAccumulation ==
    (/\ pc = "done"
     /\ deleted_included_accounts # <<>>
     /\ ~IsBool(template_dict.deleted))
    => /\ ~IsBool(template.deleted)
       /\ Len(template.deleted.items) = Len(template_dict.deleted.items) + 1
       /\ SubSeq(template.deleted.items, 1, Len(template_dict.deleted.items))
              = template_dict.deleted.items
       /\ NewDirective.included_accounts = deleted_included_accounts
       /\ templates[Len(templates)].deleted = template.deleted

\* A record already carrying two different directives receives a third.
C5_Witness ==
    /\ pc = "done"
    /\ deleted_included_accounts # <<>>
    /\ ~IsBool(template_dict.deleted)
    /\ Len(template_dict.deleted.items) = 2
    /\ template_dict.deleted.items[1] # template_dict.deleted.items[2]
    /\ Len(template.deleted.items) = 3

\* C10: a record whose deleted field is the boolean true keeps it: the
\* reconciliation neither replaces it by nor extends it with a directive,
\* whatever accounts fell out of scope.
C10_NoDirectiveWhenDeleted ==
    (pc = "done" /\ IsTrue(template_dict.deleted))
    => /\ template.deleted = DeletedBool(TRUE)
       /\ templates[Len(templates)].deleted = DeletedBool(TRUE)

\* A fully deleted record for which accounts fell out of scope.
C10_Witness ==
    /\ pc = "done"
    /\ IsTrue(template_dict.deleted)
    /\ deleted_included_accounts # <<>>
    /\ template.deleted = DeletedBool(TRUE)

\* The list without the wildcard matcher, order kept.
WithoutStar(list) == SelectSeq(list, LAMBDA m : m # STAR)

\* C11 (as stated): the excluded_accounts of the directive built equals the
\* baseline record's included_accounts with "*" removed, order kept, and
\* never holds "*".
C11_DirectiveExcludesBaseline ==
    DirectiveEmitted =>
        /\ NewDirective.excluded_accounts
               = WithoutStar(main_template.included_accounts)
        /\ ~In(STAR, NewDirective.excluded_accounts)

\* C11 (amended): the excluded_accounts of the directive built equals the
\* current record's included_accounts as parsed, before the reconciliation
\* appends to it, with "*" removed, order kept, and never holds "*".
C11_DirectiveExcludesCurrent ==
    DirectiveEmitted =>
        /\ NewDirective.excluded_accounts
               = WithoutStar(template_dict.included_accounts)
        /\ ~In(STAR, NewDirective.excluded_accounts)

\* A directive built for a current list that holds "*" and another matcher
\* and differs from the baseline list.
C11_Witness ==
    /\ DirectiveEmitted
    /\ In(STAR, template_dict.included_accounts)
    /\ Len(template_dict.included_accounts) = 2
    /\ NewDirective.excluded_accounts # <<>>
    /\ WithoutStar(main_template.included_accounts)
           # WithoutStar(template_dict.included_accounts)

\* C12: every matcher the new directive lists is also in the reconciled
\* record's included_accounts, and the matchers the current
\* included_accounts held before the reconciliation are all still there,
\* in their order, as a prefix; the same holds of the record returned.
C12_DirectiveTargetsIncluded ==
    pc = "done" =>
        /\ DirectiveEmitted =>
               \A i \in 1..Len(NewDirective.included_accounts) :
                   In(NewDirective.included_accounts[i], template.included_accounts)
        /\ Len(template.included_accounts) >= Len(template_dict.included_accounts)
        /\ SubSeq(template.included_accounts, 1,
                  Len(template_dict.included_accounts))
               = template_dict.included_accounts
        /\ templates[Len(templates)].included_accounts = template.included_accounts

\* A record with its own matchers that received a directive for an account
\* dropped from the wildcard and for a newly excluded one.
C12_Witness ==
    /\ DirectiveEmitted
    /\ Len(template_dict.included_accounts) = 2
    /\ Len(NewDirective.included_accounts) >= 2
    /\ \E i \in 1..Len(config) :
           In(AccountRegex(config[i]), NewDirective.included_accounts)
    /\ \E i \in 1..Len(template_dict.excluded_accounts) :
           In(template_dict.excluded_accounts[i], NewDirective.included_accounts)

(***************************************************************************)
(* create_templates_for_deleted_files                                      *)
(***************************************************************************)
\* GitDiff(path=..., content=..., is_deleted=...)
GitDiff(path, content, is_deleted) ==
    [path |-> path, content |-> content, is_deleted |-> is_deleted]

\* Documents of deleted files, as parsed from git_diff.content.
DeletedDocuments ==
    [included_accounts : {<<STAR>>, <<Prod>>}, excluded_accounts : {<<>>, <<Prod2>>},
     deleted : DeletedValues]

DeletedPaths == {"roles/a.yaml", "roles/b.yaml"}

InitDeleted ==
    /\ pc = "start"
    /\ templates = <<>>
    /\ deleted_files \in
           SeqsUpTo({GitDiff(path, doc, TRUE) :
                         path \in DeletedPaths, doc \in DeletedDocuments},
                    MaxDeletedFiles)
    /\ idx = 1
    /\ config = <<>>
    /\ main_template = NoTemplate
    /\ template_dict = NoTemplate
    /\ template = NoTemplate
    /\ deleted_included_accounts = <<>>
    /\ deleted_exclude_accounts = <<>>
    /\ template_excluded_accounts = <<>>
    /\ ChangesIdle

\* template_cls(file_path=git_diff.path, **template_dict)
TemplateOf(git_diff) ==
    [file_path |-> git_diff.path,
     included_accounts |-> git_diff.content.included_accounts,
     excluded_accounts |-> git_diff.content.excluded_accounts,
     deleted |-> git_diff.content.deleted]

\* if template.deleted is True: continue
SkipsDeletedTruthy(deleted) ==
    IsTrue(deleted) \/ (~IsBool(deleted) /\ deleted.items # <<>>)
SkipsDeleted(deleted) == IsTrue(deleted)

\* One iteration of: for git_diff in deleted_files
MaterializeDeleted ==
    /\ pc = "start"
    /\ idx <= Len(deleted_files)
    /\ LET parsed == TemplateOf(deleted_files[idx]) IN
           IF SkipsDeleted(parsed.deleted)
           THEN UNCHANGED templates
           ELSE templates' =
                    Append(templates, [parsed EXCEPT !.deleted = DeletedBool(TRUE)])
    /\ idx' = idx + 1
    /\ UNCHANGED <<pc, deleted_files>>
    /\ UNCHANGED modifiedVars /\ UNCHANGED changesVars

\* return templates
ReturnDeleted ==
    /\ pc = "start"
    /\ idx > Len(deleted_files)
    /\ pc' = "done"
    /\ UNCHANGED <<templates, idx, deleted_files>>
    /\ UNCHANGED modifiedVars /\ UNCHANGED changesVars

NextDeleted == MaterializeDeleted \/ ReturnDeleted

SpecDeleted == InitDeleted /\ [][NextDeleted]_vars

(***************************************************************************)
(* Properties of create_templates_for_deleted_files                        *)
(***************************************************************************)
NotYetDeleted == SelectSeq(deleted_files, LAMBDA g : g.content.deleted # DeletedBool(TRUE))

\* C8: the materializer returns one record for each deleted Change Record
\* whose parsed content does not already have deleted = true, and for no
\* other, in order; each carries deleted = true and the included_accounts
\* and excluded_accounts of the content as parsed.
C8_NoOpOnAlreadyDeleted ==
    /\ \A i \in 1..Len(templates) : templates[i].deleted = DeletedBool(TRUE)
    /\ pc = "done" =>
           /\ Len(templates) = Len(NotYetDeleted)
           /\ \A i \in 1..Len(NotYetDeleted) :
                  /\ templates[i].file_path = NotYetDeleted[i].path
                  /\ templates[i].included_accounts
                         = NotYetDeleted[i].content.included_accounts
                  /\ templates[i].excluded_accounts
                         = NotYetDeleted[i].content.excluded_accounts
                  /\ templates[i].deleted = DeletedBool(TRUE)

\* An already deleted document is passed over, one carrying directives is
\* emitted.
C8_Witness ==
    /\ pc = "done"
    /\ Len(deleted_files) = 2
    /\ deleted_files[1].content.deleted = DeletedBool(TRUE)
    /\ ~IsBool(deleted_files[2].content.deleted)
    /\ deleted_files[2].content.deleted.items # <<>>
    /\ Len(templates) = 1
    /\ templates[1].file_path = deleted_files[2].path

(***************************************************************************)
(* retrieve_git_changes, for one entry of diff_index                       *)
(***************************************************************************)
\* A path is absolute or relative, a list of directories and file names,
\* and the extension of the last one.
Path(abs, parts, ext) == [abs |-> abs, parts |-> parts, ext |-> ext]

\* os.path.join(a, b): b alone when b is absolute
PathJoin(a, b) == IF b.abs THEN b ELSE Path(a.abs, a.parts \o b.parts, b.ext)

\* path.endswith(".yaml")
EndsWithYaml(path) == path.ext = "yaml"

RepoDirs == {Path(TRUE, <<"repo">>, ""), Path(FALSE, <<"repo">>, "")}
TreePaths ==
    {Path(FALSE, <<"a">>, "yaml"), Path(FALSE, <<"b">>, "yaml"),
     Path(FALSE, <<"c">>, "txt")}

\* The parts of a template document the classification reads.
GroupType == "NOQ::Google::Group"
NoContent == [template_type |-> "None", email |-> "", members |-> <<>>]
ManagedDocuments ==
    [template_type : {GroupType}, email : {"e1", "e2"},
     members : SeqsUpTo({"m1", "m2"}, MaxMembers)]
PlainDocuments ==
    [template_type : {"plain"}, email : {"e1"}, members : {<<>>, <<"m1">>}]
TreeDocuments == ManagedDocuments \cup PlainDocuments

\* re.search(NOQ_TEMPLATE_REGEX, content) / file_regex_search(path, ...)
HasTemplateTag(content) == content.template_type = GroupType

\* Number of times x is in list.
Count(x, list) == Cardinality({i \in 1..Len(list) : list[i] = x})

\* DeepDiff(t1, t2, ignore_order=True, report_repetition=True) is not empty
DeepDiffOrdered(t1, t2) == t1 # t2
DeepDiff(t1, t2) ==
    \/ t1.template_type # t2.template_type
    \/ t1.email # t2.email
    \/ \E x \in Range(t1.members) \cup Range(t2.members) :
           Count(x, t1.members) # Count(x, t2.members)

\* template.resource_id of a group template
ResourceId(template_fields) == template_fields.email

\* An entry of diff_index: its change type, both paths, the pre-image blob
\* and the content of the working tree at b_path.  An added entry has no
\* pre-image, a deleted one no post-image, and both have a_path = b_path; a
\* modified entry has different pre-image and post-image blobs.
DiffEntry(change_type, a_path, b_path, a_blob, worktree) ==
    [change_type |-> change_type, a_path |-> a_path, b_path |-> b_path,
     a_blob |-> a_blob, worktree |-> worktree]
NoEntry ==
    DiffEntry("None", Path(FALSE, <<>>, ""), Path(FALSE, <<>>, ""), NoContent, NoContent)
DiffEntries ==
    {DiffEntry("A", f, f, NoContent, doc) : f \in TreePaths, doc \in TreeDocuments}
    \cup
    {DiffEntry("D", f, f, doc, NoContent) : f \in TreePaths, doc \in TreeDocuments}
    \cup
    {e \in [change_type : {"M"}, a_path : TreePaths, b_path : TreePaths,
            a_blob : TreeDocuments, worktree : TreeDocuments] :
         e.a_blob # e.worktree}

\* repo.remotes
Remotes == <<"origin", "upstream">>

NoFiles == [new_files |-> <<>>, deleted_files |-> <<>>, modified_files |-> <<>>]

\* main_or_master(repo): the function is defined and never called
MainOrMaster(branches) ==
    IF "main" \in branches THEN "main"
    ELSE IF "master" \in branches THEN "master"
    ELSE "ValueError"

\* The revision the code compares against when from_sha is None.
DefaultRevision == "origin/main"

\* A branch is on origin exactly when it is among repo.heads.
InitChanges ==
    /\ pc = "start"
    /\ repo_dir \in RepoDirs
    /\ from_sha \in {None, "sha"}
    /\ heads \in SUBSET {"main", "master"}
    /\ fetched = {}
    /\ from_sha_obj = None
    /\ raised = None
    /\ file_obj = NoEntry
    /\ files = NoFiles
    /\ idx = 1
    /\ templates = <<>>
    /\ config = <<>>
    /\ main_template = NoTemplate
    /\ template_dict = NoTemplate
    /\ template = NoTemplate
    /\ deleted_included_accounts = <<>>
    /\ deleted_exclude_accounts = <<>>
    /\ template_excluded_accounts = <<>>
    /\ deleted_files = <<>>

\* One iteration of: for remote in repo.remotes: remote.fetch()
FetchRemote ==
    /\ pc = "start"
    /\ from_sha = None
    /\ idx <= Len(Remotes)
    /\ fetched' = fetched \cup {Remotes[idx]}
    /\ idx' = idx + 1
    /\ UNCHANGED <<pc, templates, repo_dir, from_sha, heads, from_sha_obj, raised,
                   file_obj, files, deleted_files>>
    /\ UNCHANGED modifiedVars

\* from_sha_obj = repo.commit("origin/main"): raises when origin has no main
ResolveDefault ==
    /\ pc = "start"
    /\ from_sha = None
    /\ idx > Len(Remotes)
    /\ IF "main" \in heads
       THEN /\ from_sha_obj' = DefaultRevision
            /\ pc' = "diff"
            /\ UNCHANGED raised
       ELSE /\ raised' = "BadName"
            /\ pc' = "raised"
            /\ UNCHANGED from_sha_obj
    /\ UNCHANGED <<templates, idx, repo_dir, from_sha, heads, fetched, file_obj,
                   files, deleted_files>>
    /\ UNCHANGED modifiedVars

\* from_sha_obj = repo.commit(from_sha)
ResolveGiven ==
    /\ pc = "start"
    /\ from_sha # None
    /\ from_sha_obj' = from_sha
    /\ pc' = "diff"
    /\ UNCHANGED <<templates, idx, repo_dir, from_sha, heads, fetched, raised,
                   file_obj, files, deleted_files>>
    /\ UNCHANGED modifiedVars

\* diff_index = from_sha_obj.diff(to_sha_obj)
Diff ==
    /\ pc = "diff"
    /\ file_obj' \in DiffEntries
    /\ pc' = "new"
    /\ UNCHANGED <<templates, idx, repo_dir, from_sha, heads, fetched, from_sha_obj,
                   raised, files, deleted_files>>
    /\ UNCHANGED modifiedVars

\* for file_obj in diff_index.iter_change_type("A")
CollectNew ==
    /\ pc = "new"
    /\ LET path == PathJoin(repo_dir, file_obj.b_path) IN
           IF /\ file_obj.change_type = "A"
              /\ EndsWithYaml(path)
              /\ HasTemplateTag(file_obj.worktree)
           THEN files' =
                    [files EXCEPT !.new_files =
                         Append(@, GitDiff(PathJoin(repo_dir, path), NoContent, FALSE))]
           ELSE UNCHANGED files
    /\ pc' = "deleted"
    /\ UNCHANGED <<templates, idx, repo_dir, from_sha, heads, fetched, from_sha_obj,
                   raised, file_obj, deleted_files>>
    /\ UNCHANGED modifiedVars

\* for file_obj in diff_index.iter_change_type("D")
CollectDeleted ==
    /\ pc = "deleted"
    /\ LET path == file_obj.b_path IN
           IF /\ file_obj.change_type = "D"
              /\ EndsWithYaml(path)
              /\ HasTemplateTag(file_obj.a_blob)
           THEN files' =
                    [files EXCEPT !.deleted_files =
                         Append(@, GitDiff(PathJoin(repo_dir, path),
                                           file_obj.a_blob, TRUE))]
           ELSE UNCHANGED files
    /\ pc' = "modified"
    /\ UNCHANGED <<templates, idx, repo_dir, from_sha, heads, fetched, from_sha_obj,
                   raised, file_obj, deleted_files>>
    /\ UNCHANGED modifiedVars

\* What the body of the loop over modified entries does with a renamed entry
\* whose pre-image carries the tag: "skip", "split" or "modified".
RenameOutcome(main_template_dict, disk_template_dict) ==
    IF ~DeepDiff(disk_template_dict, main_template_dict) THEN "skip"
    ELSE IF ResourceId(main_template_dict) # ResourceId(disk_template_dict)
    THEN "split"
    ELSE "modified"

\* for file_obj in diff_index.iter_change_type("M")
CollectModified ==
    /\ pc = "modified"
    /\ LET path == PathJoin(repo_dir, file_obj.b_path)
           main_path == PathJoin(repo_dir, file_obj.a_path)
           deleted_file ==
               GitDiff(PathJoin(repo_dir, main_path), file_obj.a_blob, TRUE)
           file == GitDiff(PathJoin(repo_dir, path), file_obj.a_blob, FALSE)
           outcome ==
               IF main_path # path /\ HasTemplateTag(deleted_file.content)
               THEN RenameOutcome(file_obj.a_blob, file_obj.worktree)
               ELSE "modified"
       IN  IF /\ file_obj.change_type = "M"
              /\ EndsWithYaml(path)
              /\ HasTemplateTag(file_obj.worktree)
           THEN CASE outcome = "skip" -> UNCHANGED files
                  [] outcome = "split" ->
                         files' =
                             [files EXCEPT
                                  !.deleted_files = Append(@, deleted_file),
                                  !.new_files =
                                      Append(@, GitDiff(path, NoContent, FALSE))]
                  [] OTHER ->
                         files' = [files EXCEPT !.modified_files = Append(@, file)]
           ELSE UNCHANGED files
    /\ pc' = "done"
    /\ UNCHANGED <<templates, idx, repo_dir, from_sha, heads, fetched, from_sha_obj,
                   raised, file_obj, deleted_files>>
    /\ UNCHANGED modifiedVars

NextChanges ==
    \/ FetchRemote
    \/ ResolveDefault
    \/ ResolveGiven
    \/ Diff
    \/ CollectNew
    \/ CollectDeleted
    \/ CollectModified

SpecChanges == InitChanges /\ [][NextChanges]_vars

(***************************************************************************)
(* Properties of retrieve_git_changes                                      *)
(***************************************************************************)
\* s is a rearrangement of t
IsPermutationOf(s, t) ==
    /\ Len(s) = Len(t)
    /\ \E f \in [1..Len(s) -> 1..Len(s)] :
           /\ \A i, j \in 1..Len(s) : f[i] = f[j] => i = j
           /\ \A i \in 1..Len(s) : s[i] = t[f[i]]

\* The two parsed documents are equal up to the order of their lists.
StructurallyEqual(x, y) ==
    /\ x.template_type = y.template_type
    /\ x.email = y.email
    /\ IsPermutationOf(x.members, y.members)

\* The entry is a rename of a managed document that is managed afterwards.
ManagedRename ==
    /\ file_obj.change_type = "M"
    /\ file_obj.a_path # file_obj.b_path
    /\ HasTemplateTag(file_obj.a_blob)
    /\ HasTemplateTag(file_obj.worktree)

\* C6: a renamed entry whose pre-image and post-image both carry the
\* management tag and parse to structurally equal documents adds no Change
\* Record to new_files, deleted_files or modified_files.
C6_RenameNoOp ==
    (ManagedRename /\ StructurallyEqual(file_obj.a_blob, file_obj.worktree))
    => files = NoFiles

\* A renamed .yaml document whose members were only reordered.
C6_Witness ==
    /\ pc = "done"
    /\ ManagedRename
    /\ EndsWithYaml(file_obj.b_path)
    /\ StructurallyEqual(file_obj.a_blob, file_obj.worktree)
    /\ file_obj.a_blob.members # file_obj.worktree.members
    /\ files = NoFiles

\* The pre-image and post-image locations of the entry under repo_dir.
OldPath == PathJoin(repo_dir, file_obj.a_path)
NewPath == PathJoin(repo_dir, file_obj.b_path)

\* C7 (as stated): a renamed managed document whose parsed pre-image and
\* post-image differ structurally yields, when their resource_id differ,
\* exactly one deleted Change Record (old path, pre-image content,
\* is_deleted) and one new Change Record (new path, no content) and no
\* modified one; when the resource_id is the same, exactly one modified
\* Change Record with the pre-image content at the post-image path.
C7_RenameSplit ==
    (/\ pc = "done"
     /\ ManagedRename
     /\ EndsWithYaml(file_obj.b_path)
     /\ ~StructurallyEqual(file_obj.a_blob, file_obj.worktree))
    => IF file_obj.a_blob.email # file_obj.worktree.email
       THEN /\ files.deleted_files = <<GitDiff(OldPath, file_obj.a_blob, TRUE)>>
            /\ files.new_files = <<GitDiff(NewPath, NoContent, FALSE)>>
            /\ files.modified_files = <<>>
       ELSE /\ files.modified_files = <<GitDiff(NewPath, file_obj.a_blob, FALSE)>>
            /\ files.deleted_files = <<>>
            /\ files.new_files = <<>>

\* origin/<branch>
OriginRef(branch) == IF branch = "main" THEN "origin/main" ELSE "origin/master"

\* C9 (as stated): with from_sha unset, every remote is fetched before the
\* baseline is resolved; the baseline is the tip of origin/main when a main
\* branch exists, else of origin/master when a master branch exists, and
\* with neither the call fails with an error (the claim's ConfigurationError)
\* instead of producing a diff.
C9_DefaultBranch ==
    (from_sha = None /\ pc # "start")
    => /\ fetched = Range(Remotes)
       /\ IF MainOrMaster(heads) = "ValueError"
          THEN raised # None /\ file_obj = NoEntry
          ELSE raised = None /\ from_sha_obj = OriginRef(MainOrMaster(heads))

====
